---------------------------- MODULE Spec2Model ----------------------------
(***************************************************************************)
(* Indicator extraction and scoring of cyber_threat_analyzer.              *)
(*                                                                         *)
(* Text is modelled as a sequence of one-character strings, so that the    *)
(* regular expressions of app/parser.py, the substring tests and the       *)
(* f-string concatenations are computed character by character.            *)
(***************************************************************************)
EXTENDS Integers, Sequences, FiniteSets, TLC

(***************************************************************************)
(* Bounds of the model.                                                    *)
(***************************************************************************)
MaxTokens == 3      \* tokens concatenated into one log text
MaxPackets == 3     \* packet entries in the dissector's JSON array
MaxSecond == 1      \* seconds the clock advances while uploads arrive
MaxIndicators == 2  \* indicators in the list given to enrich_indicators

(***************************************************************************)
(* Character classes of Python's re module (str patterns, ASCII range).    *)
(***************************************************************************)
Digit == {"0","1","2","3","4","5","6","7","8","9"}
Lower == {"a","b","c","d","e","f","g","h","i","j","k","l","m",
          "n","o","p","q","r","s","t","u","v","w","x","y","z"}
Upper == {"A","B","C","D","E","F","G","H","I","J","K","L","M",
          "N","O","P","Q","R","S","T","U","V","W","X","Y","Z"}
Alpha == Lower \cup Upper
Alnum == Alpha \cup Digit
AlnumHyphen == Alnum \cup {"-"}
WordChar == Alnum \cup {"_"}                  \* \w
Whitespace == {" ", "\t", "\n", "\r", "\f"}   \* \s
UrlStop == Whitespace \cup {"\"", "'"}        \* excluded by [^\s"']

Max(S) == CHOOSE x \in S : \A y \in S : y <= x
Min2(a, b) == IF a <= b THEN a ELSE b

(***************************************************************************)
(* Regular-expression pieces.  A piece maps a set P of positions (1-based, *)
(* the index of the next character to read) to the set of positions the    *)
(* engine can be at after matching the piece from some position of P.      *)
(***************************************************************************)
\* \b at position p: exactly one of s[p-1], s[p] is a word character
WordBoundary(s, p) ==
  LET before == p > 1 /\ s[p-1] \in WordChar
      after  == p <= Len(s) /\ s[p] \in WordChar
  IN  before # after

Bnd(s, P) == { p \in P : WordBoundary(s, p) }

\* a literal character c
Lit(s, P, c) == { p + 1 : p \in { q \in P : q <= Len(s) /\ s[q] = c } }

\* the literal string w
LitStr(s, P, w) ==
  { p + Len(w) : p \in { q \in P : q + Len(w) - 1 <= Len(s)
                                   /\ SubSeq(s, q, q + Len(w) - 1) = w } }

\* [C]{lo,hi}
ClassRep(s, P, C, lo, hi) ==
  UNION { { p + k : k \in { j \in lo..Min2(hi, Len(s) - p + 1) :
                            \A i \in p..(p + j - 1) : s[i] \in C } } : p \in P }

\* [^C]+
NotClassPlus(s, P, C) ==
  UNION { { p + k : k \in { j \in 1..(Len(s) - p + 1) :
                            \A i \in p..(p + j - 1) : s[i] \notin C } } : p \in P }

\* (?:\d{1,3}\.)  and  \d{1,3}\.
OctetDot(s, P) == Lit(s, ClassRep(s, P, Digit, 1, 3), ".")

\* \b(?:\d{1,3}\.){3}\d{1,3}\b
IpEnds(s, i) ==
  Bnd(s, ClassRep(s, OctetDot(s, OctetDot(s, OctetDot(s, Bnd(s, {i})))), Digit, 1, 3))

\* https?://[^\s"']+
UrlEnds(s, i) ==
  LET http == LitStr(s, {i}, <<"h","t","t","p">>)
      opts == http \cup Lit(s, http, "s")
  IN  NotClassPlus(s, LitStr(s, opts, <<":","/","/">>), UrlStop)

\* (?:[a-zA-Z0-9](?:[a-zA-Z0-9-]{0,61}[a-zA-Z0-9])?\.)
LabelDot(s, P) ==
  LET first == ClassRep(s, P, Alnum, 1, 1)
      rest  == ClassRep(s, ClassRep(s, first, AlnumHyphen, 0, 61), Alnum, 1, 1)
  IN  Lit(s, first \cup rest, ".")

\* (?:label\.)+ : the positions after one or more labels
RECURSIVE LabelsPlus(_, _)
LabelsPlus(s, P) ==
  LET Q == LabelDot(s, P)
  IN  IF Q = {} THEN {} ELSE Q \cup LabelsPlus(s, Q)

\* \b(?:[a-zA-Z0-9](?:[a-zA-Z0-9-]{0,61}[a-zA-Z0-9])?\.)+[a-zA-Z]{2,6}\b
DomainEnds(s, i) ==
  Bnd(s, ClassRep(s, LabelsPlus(s, Bnd(s, {i})), Alpha, 2, 6))

PatternEnds(pat, s, i) ==
  CASE pat = "ip"     -> IpEnds(s, i)
    [] pat = "url"    -> UrlEnds(s, i)
    [] pat = "domain" -> DomainEnds(s, i)

\* re.findall(pattern, content): leftmost, non-overlapping matches in order.
\* Every quantifier of the three patterns is greedy and the alternatives of a
\* match differ only in how much is repeated, so the match the backtracking
\* engine returns at a start position is the longest one.
RECURSIVE FindAllFrom(_, _, _)
FindAllFrom(pat, s, i) ==
  IF i > Len(s) THEN << >>
  ELSE LET E == PatternEnds(pat, s, i)
       IN  IF E = {} THEN FindAllFrom(pat, s, i + 1)
           ELSE << SubSeq(s, i, Max(E) - 1) >> \o FindAllFrom(pat, s, Max(E))

FindAll(pat, s) == FindAllFrom(pat, s, 1)

\* re.match(r"^\d{1,3}\.\d{1,3}\.\d{1,3}\.\d{1,3}<<","," ","s",")",":"," ">>" matches at the
\* end of the string and just before a newline that ends the string
IsDottedQuadMatch(s) ==
  LET E == ClassRep(s, OctetDot(s, OctetDot(s, OctetDot(s, {1}))), Digit, 1, 3)
  IN  \E p \in E : \/ p = Len(s) + 1
                   \/ p = Len(s) /\ s[p] = "\n"

\* needle in hay (Python str containment)
Contains(hay, needle) ==
  \E i \in 1..(Len(hay) - Len(needle) + 1) :
      SubSeq(hay, i, i + Len(needle) - 1) = needle

Range(f) == { f[i] : i \in DOMAIN f }

\* the lists a for-loop over a Python set can produce: every order, no repeats
Orderings(S) ==
  { f \in [1..Cardinality(S) -> S] : \A i, j \in 1..Cardinality(S) : i # j => f[i] # f[j] }

\* a loop over the list itself, as "for x in matches" would run
IterationsOfList(matches) == { matches }

\* for x in set(matches): the set of the list's values, visited in some order
Iterations(matches) == Orderings(Range(matches))


(***************************************************************************)
(* app/enrichment.py: the scoring classifier.                              *)
(***************************************************************************)
THREAT_SCORES ==
  [ ip     |-> << <<90, "High">>, <<60, "Medium">>, <<30, "Low">> >>,
    domain |-> << <<85, "High">>, <<55, "Medium">>, <<25, "Low">> >>,
    url    |-> << <<80, "High">>, <<50, "Medium">>, <<20, "Low">> >> ]

\* THREAT_SCORES.get(type_, THREAT_SCORES["ip"]): a default that is a real table
ThresholdsDefaultIp(type_) ==
  IF type_ \in DOMAIN THREAT_SCORES THEN THREAT_SCORES[type_] ELSE THREAT_SCORES.ip

\* THREAT_SCORES.get(type_, [])
Thresholds(type_) ==
  IF type_ \in DOMAIN THREAT_SCORES THEN THREAT_SCORES[type_] ELSE << >>

\* score > threshold: an exclusive lower bound
MeetsThresholdExclusive(score, threshold) == score > threshold

\* score >= threshold, the test of the loop body
MeetsThreshold(score, threshold) == score >= threshold

\* the for loop of classify_score over the rest of the table
RECURSIVE FirstLabel(_, _)
FirstLabel(score, thresholds) ==
  IF thresholds = << >> THEN "Unknown"
  ELSE IF MeetsThreshold(score, Head(thresholds)[1]) THEN Head(thresholds)[2]
       ELSE FirstLabel(score, Tail(thresholds))

classify_score(score, type_) == FirstLabel(score, Thresholds(type_))

(***************************************************************************)
(* app/parser.py: parse_log.                                               *)
(***************************************************************************)
Indicator(type_, value) == [type |-> type_, value |-> value]

AsIndicators(type_, values) ==
  [ i \in 1..Len(values) |-> Indicator(type_, values[i]) ]

\* any(url_part in domain for url_part in urls)
AnyUrlInDomain(domain, urls) ==
  \E k \in 1..Len(urls) : Contains(domain, urls[k])

\* the two if statements guarding the append of a domain in parse_log
KeepLogDomain(domain, urls) ==
  /\ ~IsDottedQuadMatch(domain)
  /\ Contains(domain, <<".">>)
  /\ ~AnyUrlInDomain(domain, urls)

\* the loop over set(domains), visiting the set in the order domainOrder
LogDomainIndicators(domainOrder, urls) ==
  AsIndicators("domain", SelectSeq(domainOrder, LAMBDA d : KeepLogDomain(d, urls)))

\* the indicator list parse_log builds when the three sets are visited in
\* the given orders
LogIndicators(content, ipOrder, urlOrder, domainOrder) ==
  AsIndicators("ip", ipOrder)
    \o AsIndicators("url", urlOrder)
    \o LogDomainIndicators(domainOrder, FindAll("url", content))

(***************************************************************************)
(* app/parser.py: parse_pcap_with_tshark.                                  *)
(*                                                                         *)
(* A dict entry that may be missing is a sequence of length 0 or 1:        *)
(* << >> when the key is absent, << v >> when it maps to v.                *)
(***************************************************************************)
Absent == << >>
Some(v) == << v >>

\* d.get(key, default)
GetOr(entry, default) == IF entry = Absent THEN default ELSE entry[1]

\* the truth value of d.get(key): None and "" are false
Truthy(entry) == entry # Absent /\ entry[1] # << >>

MsgNotInstalled ==
  <<"E","r","r","o","r",":"," ","t","s","h","a","r","k"," ","i","s"," ","n","o","t"," ","i","n","s","t","a","l","l","e","d"," ","o","r"," ","n","o","t"," ","i","n"," ","t","h","e"," ","s","y","s","t","e","m","'","s"," ","P","A","T","H","."," ","P","l","e","a","s","e"," ","i","n","s","t","a","l","l"," ","i","t"," ","t","o"," ","a","n","a","l","y","z","e"," ","p","c","a","p"," ","f","i","l","e","s",".">>
MsgNotFound ==
  <<"E","r","r","o","r",":"," ","t","s","h","a","r","k"," ","c","o","m","m","a","n","d"," ","n","o","t"," ","f","o","u","n","d","."," ","P","l","e","a","s","e"," ","e","n","s","u","r","e"," ","i","t"," ","i","s"," ","i","n","s","t","a","l","l","e","d"," ","a","n","d"," ","i","n"," ","y","o","u","r"," ","P","A","T","H",".">>
MsgRunFailedPrefix ==
  <<"E","r","r","o","r"," ","r","u","n","n","i","n","g"," ","t","s","h","a","r","k","."," ","T","h","e"," ","f","i","l","e"," ","m","i","g","h","t"," ","b","e"," ","c","o","r","r","u","p","t","e","d"," ","o","r"," ","i","n"," ","a","n"," ","u","n","s","u","p","p","o","r","t","e","d"," ","f","o","r","m","a","t",".","\n","D","e","t","a","i","l","s",":"," ">>
MsgInvalidJson ==
  <<"E","r","r","o","r",":"," ","t","s","h","a","r","k"," ","p","r","o","d","u","c","e","d"," ","i","n","v","a","l","i","d"," ","J","S","O","N","."," ","T","h","e"," ","p","c","a","p"," ","f","i","l","e"," ","m","i","g","h","t"," ","b","e"," ","e","m","p","t","y"," ","o","r"," ","c","o","r","r","u","p","t","e","d",".">>
MsgUnexpectedPrefix ==
  <<"A","n"," ","u","n","e","x","p","e","c","t","e","d"," ","e","r","r","o","r"," ","o","c","c","u","r","r","e","d"," ","d","u","r","i","n","g"," ","p","c","a","p"," ","p","a","r","s","i","n","g",":"," ">>
MsgNoPackets ==
  <<"N","o"," ","p","r","o","c","e","s","s","a","b","l","e"," ","p","a","c","k","e","t","s"," ","w","i","t","h"," ","I","P"," ","l","a","y","e","r","s"," ","w","e","r","e"," ","f","o","u","n","d"," ","i","n"," ","t","h","e"," ","P","C","A","P"," ","f","i","l","e",".">>

\* which return of the first part of the function is taken: the check_tshark
\* test, then the except clauses of the try block; "none" when the try block
\* completes
FailureCause(on_path, outcome) ==
  CASE ~on_path                       -> "ToolMissing"
    [] outcome = "FileNotFoundError"  -> "ToolNotFound"
    [] outcome = "CalledProcessError" -> "ToolFailed"
    [] outcome = "JSONDecodeError"    -> "MalformedOutput"
    [] outcome = "Exception"          -> "Unexpected"
    [] OTHER                          -> "none"

\* one text for every cause but the tool's own failure
FailureMessageGeneric(cause, detail) ==
  IF cause = "ToolFailed" THEN MsgRunFailedPrefix \o detail ELSE MsgNotFound

\* the text each of those returns carries; detail is e.stderr or str(e)
FailureMessage(cause, detail) ==
  CASE cause = "ToolMissing"     -> MsgNotInstalled
    [] cause = "ToolNotFound"    -> MsgNotFound
    [] cause = "ToolFailed"      -> MsgRunFailedPrefix \o detail
    [] cause = "MalformedOutput" -> MsgInvalidJson
    [] cause = "Unexpected"      -> MsgUnexpectedPrefix \o detail

\* sep.join(parts)
RECURSIVE Join(_, _)
Join(sep, parts) ==
  IF parts = << >> THEN << >>
  ELSE IF Len(parts) = 1 THEN parts[1]
       ELSE parts[1] \o sep \o Join(sep, Tail(parts))

NoFrame == [time |-> Absent, number |-> Absent, protocols |-> Absent]

\* f"Frame {frame_num} ({protocols}) at {timestamp}"
FramePart(layers) ==
  LET frame_info == GetOr(layers.frame, NoFrame)
      timestamp  == GetOr(frame_info.time, <<"N","o"," ","T","i","m","e","s","t","a","m","p">>)
      frame_num  == GetOr(frame_info.number, << >>)
      protocols  == GetOr(frame_info.protocols, << >>)
  IN  <<"F","r","a","m","e"," ">> \o frame_num \o <<" ","(">> \o protocols \o <<")"," ","a","t"," ">> \o timestamp

\* the layer the address pair is read from: if 'ip' in layers
AddressLayer(layers) == layers.ip

\* if src_ip and dst_ip
HasAddressPair(layers) ==
  /\ AddressLayer(layers) # Absent
  /\ Truthy(AddressLayer(layers)[1].src)
  /\ Truthy(AddressLayer(layers)[1].dst)

\* the addresses one packet adds to ips
PacketIps(layers) ==
  IF HasAddressPair(layers)
    THEN { AddressLayer(layers)[1].src[1], AddressLayer(layers)[1].dst[1] }
    ELSE {}

IpPart(layers) ==
  IF HasAddressPair(layers)
    THEN << <<"I","P",":"," ">> \o AddressLayer(layers)[1].src[1] \o <<" ","-",">"," ">>
               \o AddressLayer(layers)[1].dst[1] >>
    ELSE << >>

HasQuery(layers) == layers.dns # Absent /\ Truthy(layers.dns[1].qry_name)
HasHost(layers) == layers.http # Absent /\ Truthy(layers.http[1].host)

\* the names one packet adds to domains
PacketDomains(layers) ==
  (IF HasQuery(layers) THEN { layers.dns[1].qry_name[1] } ELSE {})
    \cup (IF HasHost(layers) THEN { layers.http[1].host[1] } ELSE {})

DnsParts(layers) ==
  IF layers.dns = Absent THEN << >>
  ELSE (IF HasQuery(layers)
          THEN << <<"D","N","S"," ","Q","u","e","r","y",":"," ">> \o layers.dns[1].qry_name[1] >> ELSE << >>)
       \o (IF layers.dns[1].a # Absent
             THEN << <<"D","N","S"," ","A","n","s","w","e","r",":"," ">> \o layers.dns[1].a[1] >> ELSE << >>)

HttpParts(layers) ==
  IF layers.http = Absent THEN << >>
  ELSE (IF HasHost(layers)
          THEN << <<"H","T","T","P"," ","H","o","s","t",":"," ">> \o layers.http[1].host[1] >> ELSE << >>)
       \o (IF Truthy(layers.http[1].uri)
             THEN << <<"H","T","T","P"," ","U","R","I",":"," ">> \o layers.http[1].uri[1] >> ELSE << >>)

\* " | ".join(summary_parts) for one packet
SummaryLine(layers) ==
  Join(<<" ","|"," ">>, << FramePart(layers) >> \o IpPart(layers)
                   \o DnsParts(layers) \o HttpParts(layers))

\* pcap_summary_lines after the loop over packets
SummaryLines(packets) == [ i \in 1..Len(packets) |-> SummaryLine(packets[i].layers) ]

\* the first line only, then a trailer
FullTextSummaryCapped(packets) ==
  IF Len(packets) <= 1 THEN Join(<<"\n">>, SummaryLines(packets))
  ELSE SummaryLines(packets)[1] \o <<"\n">> \o <<".",".",".","a","n","d"," ","m","o","r","e">>

\* "\n".join(pcap_summary_lines)
FullTextSummary(packets) == Join(<<"\n">>, SummaryLines(packets))

AllIps(packets) == UNION { PacketIps(packets[i].layers) : i \in 1..Len(packets) }
AllDomains(packets) == UNION { PacketDomains(packets[i].layers) : i \in 1..Len(packets) }

\* every name is kept
KeepEveryDomain(domain) == TRUE

\* the test guarding the append of a domain in parse_pcap_with_tshark
KeepPcapDomain(domain) == ~IsDottedQuadMatch(domain)

\* the indicator list when the two sets are visited in the given orders
PcapIndicators(ipOrder, domainOrder) ==
  AsIndicators("ip", ipOrder)
    \o AsIndicators("domain", SelectSeq(domainOrder, KeepPcapDomain))

\* the exception the loop "for packet in packets_json" raises, "" when none:
\* None is not iterable, and an element that is no JSON object has no get
LoopException(json) ==
  IF json.kind = "null" THEN "TypeError"
  ELSE IF \E i \in 1..Len(json.items) : json.items[i].kind # "object"
         THEN "AttributeError"
         ELSE ""

(***************************************************************************)
(* app/parser.py: parse_file, the dispatch on the file name.               *)
(***************************************************************************)
LowerMap ==
  [ c \in Upper |->
      CASE c = "A" -> "a" [] c = "B" -> "b" [] c = "C" -> "c" [] c = "D" -> "d"
        [] c = "E" -> "e" [] c = "F" -> "f" [] c = "G" -> "g" [] c = "H" -> "h"
        [] c = "I" -> "i" [] c = "J" -> "j" [] c = "K" -> "k" [] c = "L" -> "l"
        [] c = "M" -> "m" [] c = "N" -> "n" [] c = "O" -> "o" [] c = "P" -> "p"
        [] c = "Q" -> "q" [] c = "R" -> "r" [] c = "S" -> "s" [] c = "T" -> "t"
        [] c = "U" -> "u" [] c = "V" -> "v" [] c = "W" -> "w" [] c = "X" -> "x"
        [] c = "Y" -> "y" [] c = "Z" -> "z" ]

\* str.lower()
ToLower(s) == [ i \in 1..Len(s) |-> IF s[i] \in Upper THEN LowerMap[s[i]] ELSE s[i] ]

\* str.endswith(suffix)
EndsWith(s, suffix) ==
  /\ Len(suffix) <= Len(s)
  /\ SubSeq(s, Len(s) - Len(suffix) + 1, Len(s)) = suffix

\* filepath.lower().endswith(('.pcap', '.pcapng'))
IsPcapPath(path) ==
  \/ EndsWith(ToLower(path), <<".","p","c","a","p">>)
  \/ EndsWith(ToLower(path), <<".","p","c","a","p","n","g">>)

(***************************************************************************)
(* app/enrichment.py: enrich_indicators.                                   *)
(***************************************************************************)
RandomLow == 10     \* random.randint(10, 100)
RandomHigh == 100

\* the level is looked up in the table of "ip", whatever the item's type
EnrichedRecordAsIp(item, score) ==
  [ type      |-> item.type,
    indicator |-> item.value,
    details   |-> <<"S","i","m","u","l","a","t","e","d"," ","e","n","r","i","c","h","m","e","n","t"," ","d","e","t","a","i","l","s"," ","f","o","r"," ">> \o item.value,
    score     |-> score,
    level     |-> classify_score(score, "ip") ]

\* the dict appended for one item, given the score drawn for it; the items
\* the parsers build always carry "type" and "value"
EnrichedRecord(item, score) ==
  [ type      |-> item.type,
    indicator |-> item.value,
    details   |-> <<"S","i","m","u","l","a","t","e","d"," ","e","n","r","i","c","h","m","e","n","t"," ","d","e","t","a","i","l","s"," ","f","o","r"," ">> \o item.value,
    score     |-> score,
    level     |-> classify_score(score, item.type) ]

\* the list enrich_indicators returns when scores[i] is drawn for item i
Enriched(items, scores) ==
  [ i \in 1..Len(items) |-> EnrichedRecord(items[i], scores[i]) ]

(***************************************************************************)
(* app/llm.py: call_llm.                                                   *)
(***************************************************************************)
MsgInvalidKey ==
  <<"E","r","r","o","r",":"," ","I","n","v","a","l","i","d"," ","O","p","e","n","A","I"," ","A","P","I"," ","K","e","y","."," ","P","l","e","a","s","e"," ","c","h","e","c","k"," ","y","o","u","r"," ","k","e","y"," ","a","n","d"," ","t","r","y"," ","a","g","a","i","n",".">>
MsgQuota ==
  <<"E","r","r","o","r",":"," ","Y","o","u"," ","h","a","v","e"," ","e","x","c","e","e","d","e","d"," ","y","o","u","r"," ","O","p","e","n","A","I"," ","A","P","I"," ","q","u","o","t","a","."," ","P","l","e","a","s","e"," ","c","h","e","c","k"," ","y","o","u","r"," ","p","l","a","n"," ","a","n","d"," ","b","i","l","l","i","n","g"," ","d","e","t","a","i","l","s",".">>
MsgApiUnexpectedPrefix ==
  <<"A","n"," ","u","n","e","x","p","e","c","t","e","d"," ","e","r","r","o","r"," ","o","c","c","u","r","r","e","d"," ","w","i","t","h"," ","t","h","e"," ","O","p","e","n","A","I"," ","A","P","I",":"," ">>

\* str.strip(): leading and trailing whitespace removed
RECURSIVE StripLeft(_)
StripLeft(s) ==
  IF s # << >> /\ Head(s) \in Whitespace THEN StripLeft(Tail(s)) ELSE s

RECURSIVE StripRight(_)
StripRight(s) ==
  IF s # << >> /\ s[Len(s)] \in Whitespace
    THEN StripRight(SubSeq(s, 1, Len(s) - 1)) ELSE s

Strip(s) == StripRight(StripLeft(s))

\* what call_llm does for a key and a behaviour of the API: the exception it
\* raises ("" when it returns) and the string it returns
CallLlmResult(key, outcome) ==
  IF key = << >>
    THEN [raises |-> "ValueError", value |-> << >>]
    ELSE [raises |-> "",
          value  |-> CASE outcome.kind = "ok" -> Strip(outcome.text)
                       [] outcome.kind = "AuthenticationError" -> MsgInvalidKey
                       [] outcome.kind = "RateLimitError" -> MsgQuota
                       [] outcome.kind = "Exception" -> MsgApiUnexpectedPrefix \o outcome.text]

(***************************************************************************)
(* app/reporting.py: the path generate_report writes.                      *)
(***************************************************************************)
\* os.path.basename(name): what follows the last "/"
RECURSIVE Basename(_)
Basename(name) ==
  IF \E i \in DOMAIN name : name[i] = "/"
    THEN Basename(SubSeq(name, (CHOOSE i \in DOMAIN name : name[i] = "/") + 1, Len(name)))
    ELSE name

\* str.replace('.', '_')
DotsToUnderscores(s) == [ i \in 1..Len(s) |-> IF s[i] = "." THEN "_" ELSE s[i] ]

\* out_path = f"/tmp/{os.path.basename(filename).replace('.', '_')}_report.pdf"
ReportPath(filename) ==
  <<"/","t","m","p","/">> \o DotsToUnderscores(Basename(filename)) \o <<"_","r","e","p","o","r","t",".","p","d","f">>

(***************************************************************************)
(* app/main_app.py: the script run for an uploaded file.                   *)
(***************************************************************************)
MAX_FILE_SIZE_MB == 15
BytesPerMb == 1024 * 1024

\* file_size_mb > MAX_FILE_SIZE_MB, for a file of the given length in bytes
TooLarge(bytes) == bytes > MAX_FILE_SIZE_MB * BytesPerMb

\* any(shell in uploaded_file.name.lower() for shell in [".sh", ".exe", ".php"])
Disallowed(name) ==
  \E shell \in { <<".","s","h">>, <<".","e","x","e">>, <<".","p","h","p">> } : Contains(ToLower(name), shell)

DigitChars == << "0", "1", "2", "3", "4", "5", "6", "7", "8", "9" >>
TwoDigits(n) == << DigitChars[(n \div 10) + 1], DigitChars[(n % 10) + 1] >>

\* datetime.now().strftime("%Y%m%d-%H%M%S") at second `second` of one minute
Timestamp(second) == <<"2","0","2","5","0","1","0","1","-","1","2","0","0">> \o TwoDigits(second)

\* save_path = f"/tmp/{timestamp}_{uploaded_file.name}"
SavePath(second, name) == <<"/","t","m","p","/">> \o Timestamp(second) \o <<"_">> \o name

Shown(widget, label, text) == [widget |-> widget, label |-> label, text |-> text]

\* if not log_text.strip() or "Error:" in log_text
ProcessingFailed(text) ==
  Strip(text) = << >> \/ Contains(text, <<"E","r","r","o","r",":">>)

\* "Error connecting to Ollama" not in llm_response
NoOllamaError(response) == ~Contains(response, <<"E","r","r","o","r"," ","c","o","n","n","e","c","t","i","n","g"," ","t","o"," ","O","l","l","a","m","a">>)

\* the branch taken after the call of the model: the summary and the
\* report, the response shown as an error, or the warning
LlmBranch(response) ==
  IF response # << >> /\ NoOllamaError(response) THEN "report"
  ELSE IF response # << >> THEN "error"
  ELSE "skipped"

\* what that branch shows
LlmWidgets(response) ==
  CASE LlmBranch(response) = "report" ->
         << Shown("subheader", "Threat Intelligence Summary", << >>),
            Shown("markdown", "", response),
            Shown("subheader", "Download Full Report", << >>) >>
    [] LlmBranch(response) = "error" ->
         << Shown("error", "", response) >>
    [] LlmBranch(response) = "skipped" ->
         << Shown("warning", "Report generation was skipped due to an analysis error.", << >>) >>

\* the report generated in the first branch: generate_report's arguments and
\* the path it returns; the download button is shown for that file
ReportOf(name, enrichments, response) ==
  IF LlmBranch(response) = "report"
    THEN Some([path        |-> ReportPath(Basename(name)),
               filename    |-> Basename(name),
               enrichments |-> enrichments,
               gpt_output  |-> response])
    ELSE Absent

\* call_llm(log_text, enriched_data): two arguments for the three parameters
\* of call_llm, none of them with a default, so the call raises TypeError
\* before the body runs
CallLlmFromApp == [raises |-> "TypeError", value |-> << >>]

\* except Exception as e: st.error(... AI Analysis Error ...)
CallFailedWidgets(raises) ==
  IF raises # ""
    THEN << Shown("error", "AI Analysis Error: Could not connect to the local AI model.", << >>) >>
    ELSE << >>

(***************************************************************************)
(* Inputs.                                                                 *)
(***************************************************************************)
\* "10.0.0.5", "http://", "bad.example.com", "/x", " ", ",", "1"
Tokens ==
  { <<"1","0",".","0",".","0",".","5">>,
    <<"h","t","t","p",":","/","/">>,
    <<"b","a","d",".","e","x","a","m","p","l","e",".","c","o","m">>,
    <<"/","x">>,
    <<" ">>,
    <<",">>,
    <<"1">> }

RECURSIVE Flatten(_)
Flatten(ts) == IF ts = << >> THEN << >> ELSE Head(ts) \o Flatten(Tail(ts))

\* "connect to 10.0.0.5 and http://bad.example.com/x, also seen 10.0.0.5 again"
EndToEndLog ==
  <<"c","o","n","n","e","c","t"," ","t","o"," ","1","0",".","0",".","0",".","5"," ","a","n","d"," ","h","t","t","p",":","/","/","b","a","d",".","e","x","a","m","p","l","e",".","c","o","m","/","x",","," ","a","l","s","o"," ","s","e","e","n"," ","1","0",".","0",".","0",".","5"," ","a","g","a","i","n">>

LogTexts ==
  { Flatten(ts) : ts \in UNION { [1..n -> Tokens] : n \in 0..MaxTokens } }
    \cup { EndToEndLog }

\* "c.log", "pcap.txt"
LogPaths == { <<"c",".","l","o","g">>, <<"p","c","a","p",".","t","x","t">> }

\* "a.pcap", "B.PCAPNG"
PcapPaths == { <<"a",".","p","c","a","p">>, <<"B",".","P","C","A","P","N","G">> }

\* e.stderr of a failed run, str(e) of another exception
Details == { <<"c","u","t"," ","s","h","o","r","t">>, <<"E","r","r","o","r",":"," ","d","e","n","i","e","d">> }

Addr4a == <<"1","0",".","0",".","0",".","5">>
Addr4b == <<"1","0",".","0",".","0",".","6">>
Addr6a == <<"f","e","8","0",":",":","1">>
Addr6b == <<"f","e","8","0",":",":","2">>
HostName == <<"b","a","d",".","e","x","a","m","p","l","e",".","c","o","m">>

Frame1 ==
  Some([time |-> Some(<<"0","s">>), number |-> Some(<<"1">>), protocols |-> Some(<<"e","t","h">>)])
Pair(src, dst) == Some([src |-> src, dst |-> dst])
Dns(qry_name, a) == Some([qry_name |-> qry_name, a |-> a])
Http(host, uri) == Some([host |-> host, uri |-> uri])

Layers(frame, ip, ipv6, dns, http) ==
  [frame |-> frame, ip |-> ip, ipv6 |-> ipv6, dns |-> dns, http |-> http]
NoLayers == Layers(Absent, Absent, Absent, Absent, Absent)

\* one element of the JSON array: an object with its _source.layers, or a
\* value that is no object
Packet(layers) == [kind |-> "object", layers |-> layers]
NotAPacket == [kind |-> "number", layers |-> NoLayers]

PacketSamples ==
  { Packet(NoLayers),                                            \* {}
    Packet(Layers(Frame1, Absent, Absent, Absent, Absent)),      \* no address layer
    Packet(Layers(Frame1, Pair(Some(Addr4a), Some(Addr4b)), Absent, Absent, Absent)),
    Packet(Layers(Frame1, Pair(Some(Addr4b), Some(Addr4a)), Absent, Absent, Absent)),
    Packet(Layers(Frame1, Pair(Some(Addr4a), Absent), Absent, Absent, Absent)),
    Packet(Layers(Frame1, Absent, Pair(Some(Addr6a), Some(Addr6b)), Absent, Absent)),
    Packet(Layers(Frame1, Pair(Some(Addr4a), Some(Addr4b)), Absent,
                  Dns(Some(HostName), Some(Addr4b)), Absent)),
    Packet(Layers(Frame1, Absent, Absent, Dns(Some(Addr4a), Absent), Absent)),
    Packet(Layers(Frame1, Pair(Some(Addr4a), Some(Addr4b)), Absent, Absent,
                  Http(Some(HostName), Some(<<"/","x">>)))),
    Packet(Layers(Frame1, Absent, Absent, Absent, Http(Some(Addr4a), Absent))),
    NotAPacket }

NoJson == [kind |-> "array", items |-> << >>]

\* what json.loads yields for the tool's output: null, or an array
JsonValues ==
  { [kind |-> "null", items |-> << >>] }
    \cup { [kind |-> "array", items |-> ps] :
             ps \in UNION { [1..n -> PacketSamples] : n \in 0..MaxPackets } }

\* uploaded_file.name: "a.pcap", "c.log"
UploadNames == { <<"a",".","p","c","a","p">>, <<"c",".","l","o","g">> }

\* names of files that arrive, one of them refused for ".sh"
ArrivingNames == UploadNames \cup { <<"x",".","s","h",".","l","o","g">> }

\* len(uploaded_file.getvalue()): just within and just over the limit
ArrivingSizes == { MAX_FILE_SIZE_MB * BytesPerMb, MAX_FILE_SIZE_MB * BytesPerMb + 1 }

\* the browser sessions whose script runs share the process and /tmp
SessionIds == {1, 2}

Idle == [pc |-> "idle", name |-> << >>, bytes |-> 0, save_path |-> << >>, read_from |-> 0]

\* the api_key argument: missing, or some key
ApiKeys == { << >>, <<"s","k","-","1">> }

\* message.content of a completion
Completions == { <<"N","o"," ","t","h","r","e","a","t"," ","f","o","u","n","d",".">>, <<" ","B","l","o","c","k"," ","1","0",".","0",".","0",".","5","\n">>, << >> }

\* how the request to the API ends: a completion, or one of the exceptions
\* call_llm catches, with str(e)
ApiOutcomes ==
  { [kind |-> "ok", text |-> c] : c \in Completions }
    \cup { [kind |-> "AuthenticationError", text |-> << >>],
           [kind |-> "RateLimitError", text |-> << >>] }
    \cup { [kind |-> "Exception", text |-> d] : d \in Details }

\* lists enrich_indicators has returned
EnrichedSamples ==
  { << >>,
    Enriched(<< Indicator("ip", Addr4a) >>, << 90 >>),
    Enriched(<< Indicator("url", <<"h","t","t","p",":","/","/","b","a","d",".","e","x","a","m","p","l","e",".","c","o","m","/","x">>),
                Indicator("domain", HostName) >>, << 10, 55 >>) }

\* the scores random.randint can draw that sit on, or just under, a threshold
\* of the table, and the two ends of its range
ScoreDraws ==
  { s \in RandomLow..RandomHigh :
      \/ s \in {RandomLow, RandomHigh}
      \/ \E k \in DOMAIN THREAT_SCORES : \E n \in DOMAIN THREAT_SCORES[k] :
           s \in { THREAT_SCORES[k][n][1], THREAT_SCORES[k][n][1] - 1 } }

\* indicators as the parsers build them, one of each type
IndicatorSamples ==
  { Indicator("ip", Addr4a),
    Indicator("domain", HostName),
    Indicator("url", <<"h","t","t","p",":","/","/","b","a","d",".","e","x","a","m","p","l","e",".","c","o","m","/","x">>) }

\* the lists given to enrich_indicators
IndicatorLists == UNION { [1..n -> IndicatorSamples] : n \in 0..MaxIndicators }

\* texts of uploaded logs: "", " ", the sample log, "Error: denied", "10.0.0.5"
AppLogTexts == { << >>, <<" ">>, EndToEndLog, <<"E","r","r","o","r",":"," ","d","e","n","i","e","d">>, Addr4a }

\* outputs of the dissector for a capture of at most one packet
AppJsonValues == { j \in JsonValues : Len(j.items) <= 1 }

Scores == 0..100
Kinds == {"ip", "domain", "url"}
Types == Kinds \cup {"unknown", "ipv6"}

VARIABLES
  pc,              \* "call", "returned" or "raised"
  score,           \* classify_score: argument score
  type_,           \* classify_score: argument type_
  label,           \* classify_score: the value returned
  filepath,        \* parse_file: argument filepath
  readable,        \* whether open(filepath) succeeds
  content,         \* the text f.read() yields
  tshark_on_path,  \* what check_tshark() returns
  run_outcome,     \* how the try block ends: "ok" or the exception raised
  run_detail,      \* e.stderr of CalledProcessError, str(e) of Exception
  packets_json,    \* what json.loads(result.stdout) returns
  log_text,        \* first component of the returned tuple
  indicators,      \* second component of the returned tuple
  exception,       \* the exception that left the call, "" when none
  upload_name,     \* main_app: uploaded_file.name
  enriched_data,   \* main_app: what enrich_indicators returned
  api_key,         \* call_llm: argument api_key
  api_outcome,     \* call_llm: how client.chat.completions.create ends
  llm_response,    \* main_app: llm_response
  ui,              \* main_app: the widgets shown, in order
  report,          \* main_app: the call of generate_report, Absent when not made
  sessions,        \* the script runs in flight, one per browser session
  tmp,             \* the files under /tmp: path -> the session that wrote it
  now              \* the clock, in seconds

vars == << pc, score, type_, label, filepath, readable, content,
           tshark_on_path, run_outcome, run_detail, packets_json,
           log_text, indicators, exception,
           upload_name, enriched_data, api_key, api_outcome, llm_response,
           ui, report, sessions, tmp, now >>

classifyVars == << score, type_, label >>
fileVars == << filepath, readable, content >>
toolVars == << tshark_on_path, run_outcome, run_detail, packets_json >>
resultVars == << log_text, indicators, exception >>
llmVars == << api_key, api_outcome, llm_response >>
appVars == << upload_name, enriched_data, ui, report >>
sessionVars == << sessions, tmp, now >>
singleRunVars == << pc, classifyVars, fileVars, toolVars, resultVars, llmVars, appVars >>

NoClassify == score = 0 /\ type_ = "" /\ label = ""
NoFile == filepath = << >> /\ readable = FALSE /\ content = << >>
NoTool ==
  /\ tshark_on_path = FALSE
  /\ run_outcome = "ok"
  /\ run_detail = << >>
  /\ packets_json = NoJson
NoResult == log_text = << >> /\ indicators = << >> /\ exception = ""
NoApiCall == [kind |-> "ok", text |-> << >>]
NoLlm == api_key = << >> /\ api_outcome = NoApiCall /\ llm_response = << >>
NoApp == upload_name = << >> /\ enriched_data = << >> /\ ui = << >> /\ report = Absent
NoSessions == sessions = << >> /\ tmp = << >> /\ now = 0

(***************************************************************************)
(* classify_score(score, type_)                                            *)
(***************************************************************************)
InitClassify ==
  /\ pc = "call"
  /\ score \in Scores
  /\ type_ \in Types
  /\ label = ""
  /\ NoFile
  /\ NoTool
  /\ NoResult
  /\ NoLlm /\ NoApp /\ NoSessions

ClassifyScore ==
  /\ pc = "call"
  /\ label' = classify_score(score, type_)
  /\ pc' = "returned"
  /\ UNCHANGED << score, type_, fileVars, toolVars, resultVars,
                  llmVars, appVars, sessionVars >>

NextClassify == ClassifyScore

SpecClassify == InitClassify /\ [][NextClassify]_vars

(***************************************************************************)
(* parse_file(filepath)                                                    *)
(***************************************************************************)
\* a text file, readable or not
InitLog ==
  /\ filepath \in LogPaths
  /\ readable \in BOOLEAN
  /\ content \in (IF readable THEN LogTexts ELSE { << >> })
  /\ NoTool

\* a capture file and the behaviour of the dissection tool on it
InitPcap ==
  /\ filepath \in PcapPaths
  /\ readable = TRUE
  /\ content = << >>
  /\ tshark_on_path \in BOOLEAN
  /\ run_outcome \in (IF tshark_on_path
                        THEN {"FileNotFoundError", "CalledProcessError",
                              "JSONDecodeError", "Exception", "ok"}
                        ELSE {"ok"})
  /\ run_detail \in (IF tshark_on_path /\ run_outcome \in {"CalledProcessError", "Exception"}
                       THEN Details ELSE { << >> })
  /\ packets_json \in (IF tshark_on_path /\ run_outcome = "ok"
                         THEN JsonValues ELSE { NoJson })

Init ==
  /\ pc = "call"
  /\ NoClassify
  /\ InitLog \/ InitPcap
  /\ NoResult
  /\ NoLlm /\ NoApp /\ NoSessions

\* parse_log(filepath), reached from parse_file for every other file name
ParseLog ==
  /\ pc = "call"
  /\ ~IsPcapPath(filepath)
  /\ IF ~readable
       THEN /\ pc' = "raised"
            /\ exception' = "OSError"
            /\ UNCHANGED << log_text, indicators >>
       ELSE /\ \E ipOrder \in Iterations(FindAll("ip", content)),
                  urlOrder \in Iterations(FindAll("url", content)),
                  domainOrder \in Iterations(FindAll("domain", content)) :
                 indicators' = LogIndicators(content, ipOrder, urlOrder, domainOrder)
            /\ log_text' = content
            /\ pc' = "returned"
            /\ UNCHANGED exception
  /\ UNCHANGED << classifyVars, fileVars, toolVars, llmVars, appVars, sessionVars >>

\* parse_pcap_with_tshark(filepath), reached from parse_file for .pcap/.pcapng
ParsePcapWithTshark ==
  /\ pc = "call"
  /\ IsPcapPath(filepath)
  /\ LET cause == FailureCause(tshark_on_path, run_outcome)
     IN  IF cause # "none"
           THEN /\ log_text' = FailureMessage(cause, run_detail)
                /\ indicators' = << >>
                /\ pc' = "returned"
                /\ UNCHANGED exception
           ELSE IF LoopException(packets_json) # ""
             THEN /\ pc' = "raised"
                  /\ exception' = LoopException(packets_json)
                  /\ UNCHANGED << log_text, indicators >>
             ELSE IF FullTextSummary(packets_json.items) = << >>
               THEN /\ log_text' = MsgNoPackets
                    /\ indicators' = << >>
                    /\ pc' = "returned"
                    /\ UNCHANGED exception
               ELSE /\ \E ipOrder \in Orderings(AllIps(packets_json.items)),
                          domainOrder \in Orderings(AllDomains(packets_json.items)) :
                         indicators' = PcapIndicators(ipOrder, domainOrder)
                    /\ log_text' = FullTextSummary(packets_json.items)
                    /\ pc' = "returned"
                    /\ UNCHANGED exception
  /\ UNCHANGED << classifyVars, fileVars, toolVars, llmVars, appVars, sessionVars >>

Next == ParseLog \/ ParsePcapWithTshark

Spec == Init /\ [][Next]_vars


(***************************************************************************)
(* call_llm(log_text, indicators, api_key) and the lines of main_app that  *)
(* act on what it returns.                                                 *)
(***************************************************************************)
InitLlm ==
  /\ pc = "call"
  /\ NoClassify /\ NoFile /\ NoTool /\ NoSessions
  /\ log_text = EndToEndLog
  /\ indicators = << >>
  /\ exception = ""
  /\ upload_name \in UploadNames
  /\ enriched_data \in EnrichedSamples
  /\ api_key \in ApiKeys
  /\ api_outcome \in (IF api_key = << >> THEN { NoApiCall } ELSE ApiOutcomes)
  /\ llm_response = << >>
  /\ ui = << >>
  /\ report = Absent

\* call_llm, called with a key
CallLlm ==
  /\ pc = "call"
  /\ LET r == CallLlmResult(api_key, api_outcome)
     IN  /\ llm_response' = r.value
         /\ exception' = r.raises
         /\ pc' = IF r.raises = "" THEN "returned" ELSE "raised"
  /\ UNCHANGED << classifyVars, fileVars, toolVars, log_text, indicators,
                  api_key, api_outcome, appVars, sessionVars >>

\* main_app, from the except clause of the call to the end of the script
ShowAnalysis ==
  /\ pc \in {"returned", "raised"}
  /\ report' = ReportOf(upload_name, enriched_data, llm_response)
  /\ ui' = ui \o CallFailedWidgets(exception) \o LlmWidgets(llm_response)
              \o (IF report' # Absent
                    THEN << Shown("download_button", "Download PDF Report", report'[1].path) >>
                    ELSE << >>)
  /\ pc' = "done"
  /\ UNCHANGED << classifyVars, fileVars, toolVars, resultVars, llmVars,
                  upload_name, enriched_data, sessionVars >>

NextLlm == CallLlm \/ ShowAnalysis

SpecLlm == InitLlm /\ [][NextLlm]_vars

(***************************************************************************)
(* main_app run by several sessions of one process: the upload is saved    *)
(* under /tmp and read back by parse_file.                                 *)
(***************************************************************************)
InitSessions ==
  /\ pc = "serving"
  /\ NoClassify /\ NoFile /\ NoTool /\ NoResult /\ NoLlm /\ NoApp
  /\ sessions = [i \in SessionIds |-> Idle]
  /\ tmp = << >>
  /\ now = 0

\* a file arrives in session i: the script runs with uploaded_file set
Upload(i) ==
  /\ sessions[i].pc = "idle"
  /\ \E name \in ArrivingNames, bytes \in ArrivingSizes :
       sessions' = [sessions EXCEPT ![i] = [@ EXCEPT !.pc = "uploaded", !.name = name,
                                                     !.bytes = bytes]]
  /\ UNCHANGED << tmp, now, singleRunVars >>

\* the size and name checks, then the upload written to save_path
SaveUpload(i) ==
  /\ sessions[i].pc = "uploaded"
  /\ IF TooLarge(sessions[i].bytes) \/ Disallowed(sessions[i].name)
       THEN /\ sessions' = [sessions EXCEPT ![i] = [@ EXCEPT !.pc = "refused"]]
            /\ UNCHANGED tmp
       ELSE LET save_path == SavePath(now, sessions[i].name)
            IN  /\ sessions' = [sessions EXCEPT ![i] = [@ EXCEPT !.pc = "saved",
                                                              !.save_path = save_path]]
                /\ tmp' = (save_path :> i) @@ tmp
  /\ UNCHANGED << now, singleRunVars >>

\* parse_file(save_path) opens the file: it reads what was written last
ReadUpload(i) ==
  /\ sessions[i].pc = "saved"
  /\ sessions' = [sessions EXCEPT ![i] = [@ EXCEPT !.pc = "parsed",
                                                  !.read_from = tmp[sessions[i].save_path]]]
  /\ UNCHANGED << tmp, now, singleRunVars >>

\* a second passes
Tick ==
  /\ now < MaxSecond
  /\ now' = now + 1
  /\ UNCHANGED << sessions, tmp, singleRunVars >>

NextSessions ==
  \/ \E i \in SessionIds : Upload(i)
  \/ \E i \in SessionIds : SaveUpload(i)
  \/ \E i \in SessionIds : ReadUpload(i)
  \/ Tick

SpecSessions == InitSessions /\ [][NextSessions]_vars

(***************************************************************************)
(* enrich_indicators(indicators)                                           *)
(***************************************************************************)
InitEnrich ==
  /\ pc = "call"
  /\ NoClassify /\ NoFile /\ NoTool /\ NoLlm /\ NoSessions
  /\ log_text = << >>
  /\ indicators \in IndicatorLists
  /\ exception = ""
  /\ NoApp

\* the loop over the items, a score drawn for each
EnrichIndicators ==
  /\ pc = "call"
  /\ \E scores \in [1..Len(indicators) -> ScoreDraws] :
       enriched_data' = Enriched(indicators, scores)
  /\ pc' = "returned"
  /\ UNCHANGED << classifyVars, fileVars, toolVars, resultVars, llmVars,
                  upload_name, ui, report, sessionVars >>

NextEnrich == EnrichIndicators

SpecEnrich == InitEnrich /\ [][NextEnrich]_vars

(***************************************************************************)
(* main_app from the call of parse_file(save_path) to the end of the       *)
(* script: the test on log_text, the scoring, the call of the model and    *)
(* what is shown.                                                          *)
(***************************************************************************)
InitApp ==
  /\ pc = "call"
  /\ NoClassify /\ NoResult /\ NoLlm /\ NoSessions
  /\ upload_name \in UploadNames
  /\ filepath = SavePath(0, upload_name)
  /\ IF IsPcapPath(filepath)
       THEN /\ readable = FALSE
            /\ content = << >>
            /\ tshark_on_path \in BOOLEAN
            /\ run_outcome \in (IF tshark_on_path
                                  THEN {"FileNotFoundError", "CalledProcessError",
                                        "JSONDecodeError", "Exception", "ok"}
                                  ELSE {"ok"})
            /\ run_detail \in (IF tshark_on_path
                                    /\ run_outcome \in {"CalledProcessError", "Exception"}
                                 THEN Details ELSE { << >> })
            /\ packets_json \in (IF tshark_on_path /\ run_outcome = "ok"
                                   THEN AppJsonValues ELSE { NoJson })
       ELSE /\ readable = TRUE
            /\ content \in AppLogTexts
            /\ NoTool
  /\ enriched_data = << >>
  /\ ui = << >>
  /\ report = Absent

\* the lines after parse_file has returned
AnalyzeParsed ==
  /\ pc = "returned"
  /\ IF ProcessingFailed(log_text)
       THEN /\ ui' = ui \o << Shown("error", "Processing Failed:", log_text) >>
            /\ UNCHANGED << enriched_data, llm_response, exception, report >>
       ELSE /\ \E scores \in [1..Len(indicators) -> ScoreDraws] :
                 enriched_data' = Enriched(indicators, scores)
            /\ llm_response' = CallLlmFromApp.value
            /\ exception' = CallLlmFromApp.raises
            /\ report' = ReportOf(upload_name, enriched_data', llm_response')
            /\ ui' = ui \o CallFailedWidgets(exception') \o LlmWidgets(llm_response')
                        \o (IF report' # Absent
                              THEN << Shown("download_button", "Download PDF Report",
                                            report'[1].path) >>
                              ELSE << >>)
  /\ pc' = "done"
  /\ UNCHANGED << classifyVars, fileVars, toolVars, log_text, indicators,
                  api_key, api_outcome, upload_name, sessionVars >>

NextApp == ParseLog \/ ParsePcapWithTshark \/ AnalyzeParsed

SpecApp == InitApp /\ [][NextApp]_vars

(***************************************************************************)
(* Properties.                                                             *)
(***************************************************************************)
IndicatorSet == Range(indicators)
LogReturned == pc = "returned" /\ ~IsPcapPath(filepath)
PcapReturned == pc = "returned" /\ IsPcapPath(filepath)

\* the dissection succeeded: the tool was found, ran, and its output parsed
Dissected == IsPcapPath(filepath) /\ tshark_on_path /\ run_outcome = "ok"

\* ---------------------------------------------------------------- C1
HighFrom   == [ip |-> 90, domain |-> 85, url |-> 80]
MediumFrom == [ip |-> 60, domain |-> 55, url |-> 50]
LowFrom    == [ip |-> 30, domain |-> 25, url |-> 20]

ExpectedLabel(kind, s) ==
  IF s >= HighFrom[kind] THEN "High"
  ELSE IF s >= MediumFrom[kind] THEN "Medium"
  ELSE IF s >= LowFrom[kind] THEN "Low"
  ELSE "Unknown"

\* C1: for each kind ip, domain, url and each score in 0..100 classify_score
\* returns the label of the highest threshold the score meets or exceeds
\* (IP 90/60/30, Domain 85/55/25, URL 80/50/20, inclusive), Unknown when the
\* score meets none.
C1_ClassifyByThreshold ==
  (pc = "returned" /\ type_ \in Kinds) => label = ExpectedLabel(type_, score)

\* an IP score just below and one exactly at the High threshold
C1_Witness ==
  /\ pc = "returned" /\ type_ = "ip"
  /\ \/ score = 90 /\ label = "High"
     \/ score = 89 /\ label = "Medium"

\* ---------------------------------------------------------------- C2
\* C2: in a result of parse_log, no Domain indicator is a substring of a URL
\* indicator of the same result.
C2_CrossFilter ==
  LogReturned =>
    \A i, j \in DOMAIN indicators :
      (indicators[i].type = "url" /\ indicators[j].type = "domain")
        => ~Contains(indicators[i].value, indicators[j].value)

\* ---------------------------------------------------------------- C3
\* C3: for the end-to-end log text parse_log returns exactly IP 10.0.0.5 (once)
\* and URL http://bad.example.com/x, and nothing else.
C3_EndToEnd ==
  (LogReturned /\ content = EndToEndLog) =>
    /\ Len(indicators) = 2
    /\ IndicatorSet = { Indicator("ip", <<"1","0",".","0",".","0",".","5">>),
                        Indicator("url", <<"h","t","t","p",":","/","/","b","a","d",".","e","x","a","m","p","l","e",".","c","o","m","/","x">>) }

\* ---------------------------------------------------------------- C4
\* C4: parse_file always returns a (text, indicators) pair; no exception
\* leaves the call, whatever the file and the tool do.
C4_NoExceptionEscapes ==
  pc # "call" => (pc = "returned" /\ exception = "")

\* ---------------------------------------------------------------- C5
HasAnyAddressLayer(packet) ==
  packet.kind = "object" /\ (packet.layers.ip # Absent \/ packet.layers.ipv6 # Absent)

\* C5: when the dissection succeeds and no packet has an address layer, the
\* result is the "no data" sentinel with an empty indicator list.
C5_NoDataSentinel ==
  ( /\ PcapReturned /\ Dissected
    /\ \A i \in DOMAIN packets_json.items : ~HasAnyAddressLayer(packets_json.items[i]) )
  => (log_text = MsgNoPackets /\ indicators = << >>)

\* ---------------------------------------------------------------- C6
\* the cause of a failed dissection, read from what the tool did
ToolAbsent == ~tshark_on_path \/ run_outcome = "FileNotFoundError"
Situation ==
  CASE ToolAbsent                         -> "ToolMissing"
    [] run_outcome = "CalledProcessError" -> "ToolFailed"
    [] run_outcome = "JSONDecodeError"    -> "MalformedOutput"
    [] run_outcome = "Exception"          -> "Unexpected"
    [] OTHER                              -> "none"

CauseKind(cause) == IF cause = "ToolNotFound" THEN "ToolMissing" ELSE cause
Causes == {"ToolMissing", "ToolNotFound", "ToolFailed", "MalformedOutput", "Unexpected"}

\* C6: every failure of the dissection returns an empty indicator list and a
\* text that no other cause and no empty result produces; a non-zero exit
\* carries the tool's diagnostic text.
C6_DistinctFailures ==
  (PcapReturned /\ Situation # "none") =>
    /\ indicators = << >>
    /\ log_text # MsgNoPackets
    /\ \A c \in Causes, d \in Details \cup { << >> } :
         CauseKind(c) # Situation => FailureMessage(c, d) # log_text
    /\ Situation = "ToolFailed" => EndsWith(log_text, run_detail)

\* a malformed output and a non-zero exit have each been reported
C6_Witness ==
  /\ PcapReturned
  /\ \/ Situation = "MalformedOutput" /\ log_text = MsgInvalidJson
     \/ Situation = "ToolFailed" /\ run_detail # << >>
          /\ log_text = MsgRunFailedPrefix \o run_detail

\* ---------------------------------------------------------------- C7
\* the lines of a text
RECURSIVE SplitLines(_)
SplitLines(t) ==
  IF \E i \in DOMAIN t : t[i] = "\n"
    THEN LET k == CHOOSE i \in DOMAIN t : t[i] = "\n" /\ \A j \in 1..(i - 1) : t[j] # "\n"
         IN  << SubSeq(t, 1, k - 1) >> \o SplitLines(SubSeq(t, k + 1, Len(t)))
    ELSE << t >>

StartsWith(s, prefix) ==
  Len(prefix) <= Len(s) /\ SubSeq(s, 1, Len(prefix)) = prefix

\* a normal summary was returned
Summarized ==
  /\ PcapReturned /\ Dissected
  /\ packets_json.items # << >>

\* the largest cap that fewer lines than packets would show within MaxPackets
LargestCap == MaxPackets - 2

\* C7 as stated: the summary holds at most cap packet lines plus one trailer.
C7_SummaryCap ==
  Summarized => Len(SplitLines(log_text)) <= LargestCap + 1

\* C7 amended: the summary holds one line per packet record, each a packet
\* line, whatever the number of records: there is no cap and no trailer.
C7_OneLinePerPacket ==
  Summarized =>
    /\ Len(SplitLines(log_text)) = Len(packets_json.items)
    /\ \A i \in DOMAIN SplitLines(log_text) :
         StartsWith(SplitLines(log_text)[i], <<"F","r","a","m","e"," ">>)

\* a summary of as many packets as the bound allows
C7_Witness ==
  /\ Summarized
  /\ Len(packets_json.items) = MaxPackets
  /\ Len(SplitLines(log_text)) = MaxPackets

\* ---------------------------------------------------------------- C8
\* C8: the returned indicator list holds no two records of the same kind
\* and value.
C8_NoDuplicates ==
  pc = "returned" =>
    \A i, j \in DOMAIN indicators : i # j => indicators[i] # indicators[j]

\* the address occurs twice in the log text and once in the result
C8_Witness ==
  /\ LogReturned
  /\ Len(SelectSeq(FindAll("ip", content), LAMBDA v : v = Addr4a)) >= 2
  /\ Cardinality({ i \in DOMAIN indicators : indicators[i] = Indicator("ip", Addr4a) }) = 1

\* ---------------------------------------------------------------- C9
\* the whole value is one match of the dotted-quad address pattern
IsAddressShaped(value) == (Len(value) + 1) \in IpEnds(value, 1)

\* C9: no Domain indicator of a result is address-shaped.
C9_AddressExclusion ==
  pc = "returned" =>
    \A i \in DOMAIN indicators :
      indicators[i].type = "domain" => ~IsAddressShaped(indicators[i].value)

\* a capture whose DNS query name or HTTP host is an address was summarized
C9_Witness ==
  /\ Summarized
  /\ \E d \in AllDomains(packets_json.items) : IsAddressShaped(d)
  /\ \A i \in DOMAIN indicators : indicators[i].type = "domain"
        => ~IsAddressShaped(indicators[i].value)

\* ---------------------------------------------------------------- C10
\* C10: a packet with an ipv6 layer carrying both addresses contributes both
\* to the IP indicators.
C10_Ipv6Pair ==
  Summarized =>
    \A i \in DOMAIN packets_json.items :
      LET layers == packets_json.items[i].layers
      IN  (layers.ipv6 # Absent /\ Truthy(layers.ipv6[1].src) /\ Truthy(layers.ipv6[1].dst))
            => { Indicator("ip", layers.ipv6[1].src[1]),
                 Indicator("ip", layers.ipv6[1].dst[1]) } \subseteq IndicatorSet

\* ---------------------------------------------------------------- C11
\* the strings call_llm returns when the API call fails
IsLlmErrorSentinel(response) ==
  \/ StartsWith(response, MsgInvalidKey)
  \/ StartsWith(response, MsgQuota)
  \/ StartsWith(response, MsgApiUnexpectedPrefix)

ShownAsSummary(response) ==
  \E i \in DOMAIN ui : ui[i].widget = "markdown" /\ ui[i].text = response

InFlight(i) == sessions[i].pc = "saved"

\* C12: analyses in flight at the same time use distinct temporary paths,
\* and an analysis reads back the file it wrote itself.
C12_DistinctTempPaths ==
  /\ \A i, j \in DOMAIN sessions :
       (i # j /\ InFlight(i) /\ InFlight(j))
         => sessions[i].save_path # sessions[j].save_path
  /\ \A i \in DOMAIN sessions :
       sessions[i].pc = "parsed" => sessions[i].read_from = i

(***************************************************************************)
(* classify_score on kinds outside the table                               *)
(***************************************************************************)
Labels == {"High", "Medium", "Low", "Unknown"}

\* C13: for every score and every kind, a kind outside the three table keys
\* included, classify_score returns one of High, Medium, Low, Unknown, and
\* for a kind outside the table the result is Unknown whatever the score.
C13_AlwaysALabel ==
  pc = "returned" =>
    /\ label \in Labels
    /\ (type_ \notin Kinds => label = "Unknown")

\* the highest score with a kind that is not a table key
C13_Witness ==
  /\ pc = "returned"
  /\ type_ = "ipv6"
  /\ score = 100
  /\ label = "Unknown"


(***************************************************************************)
(* main_app: which results of parse_file stop the analysis                 *)
(***************************************************************************)
\* the dissection failed or found nothing to report
DissectorFailed ==
  /\ IsPcapPath(filepath)
  /\ \/ FailureCause(tshark_on_path, run_outcome) # "none"
     \/ FullTextSummary(packets_json.items) = << >>

\* the script stopped with the processing-failure message
Halted == \E k \in DOMAIN ui : ui[k].label = "Processing Failed:"

\* the script went on to the call of the model
Proceeded == \E k \in DOMAIN ui : ui[k].widget = "warning" \/ ui[k].widget = "subheader"

EnrichedFrom(record, item) ==
  /\ record.type = item.type
  /\ record.indicator = item.value
  /\ record.score \in 0..100
  /\ record.level = classify_score(record.score, item.type)
  /\ record.level \in Labels

\* C15: enrich_indicators returns one record per input indicator, in input
\* order, with the input's type and value unchanged, an integer score in
\* 0..100 and the level classify_score gives for that score and type, one of
\* High, Medium, Low, Unknown; the input list is left as it was.
C15_OneRecordPerIndicator ==
  [][ (pc = "call" /\ pc' = "returned") =>
        /\ indicators' = indicators
        /\ Len(enriched_data') = Len(indicators)
        /\ \A i \in 1..Len(indicators) : EnrichedFrom(enriched_data'[i], indicators[i]) ]_vars

\* a url scored 84 then an address scored 29, enriched in that order
C15_Witness ==
  /\ pc = "returned"
  /\ indicators = << Indicator("url", <<"h","t","t","p",":","/","/","b","a","d",".","e","x","a","m","p","l","e",".","c","o","m","/","x">>), Indicator("ip", Addr4a) >>
  /\ Len(enriched_data) = 2
  /\ enriched_data[1].indicator = <<"h","t","t","p",":","/","/","b","a","d",".","e","x","a","m","p","l","e",".","c","o","m","/","x">>
  /\ enriched_data[1].score = 84
  /\ enriched_data[1].level = "High"
  /\ enriched_data[2].indicator = Addr4a
  /\ enriched_data[2].score = 29
  /\ enriched_data[2].level = "Unknown"

=============================================================================
